---- MODULE Spec2Model ----
(***************************************************************************)
(* State-vector quantum simulator (js/complex.js, js/quantum-state.js,     *)
(* js/quantum-gates.js, js/quantum-register.js, js/algorithms.js).         *)
(*                                                                         *)
(* Numbers.  The program computes with IEEE doubles; the model computes    *)
(* with exact reals of the form (a + b*sqrt(2)) / 2^k, written <<a,b,k>>,  *)
(* which contains every entry of the gate catalog (1/sqrt(2), exp(i*pi/4)).*)
(* Rounding error is therefore outside the model.  The range of doubles is *)
(* inside it: an argument x * 2^e carries its exponent e beside the exact  *)
(* x, and the comparisons with 1e-15 and the overflow to Infinity at       *)
(* 2^1024 are decided from bounds on the binary order of x.                *)
(*                                                                         *)
(* A register holds the vector `amplitudes` and a positive real `scale`:   *)
(* the amplitude the program stores at index s is                          *)
(*        amplitudes[s] / sqrt(scale).                                     *)
(* Construction, setAmplitude and measureAll store scale = 1; only the     *)
(* division by Math.sqrt(normalizationFactor) in measureQubit changes it.  *)
(***************************************************************************)
EXTENDS Integers, Sequences, FiniteSets, TLC

VARIABLES pc, numQubits, amplitudes, scale, pre, preScale, op, nOps, ctor, alg,
          tape, machine

vars == <<pc, numQubits, amplitudes, scale, pre, preScale, op, nOps, ctor, alg,
          tape, machine>>

(* ------------------------------ bounds ------------------------------- *)

\* largest n passed to new QuantumRegister(n), createUniformSuperposition(n)
\* and createWState(n); createGHZ's register has 3 qubits whatever the bound
MaxQubits == 2
\* calls made on one register after its construction
MaxOps == 2
\* Math.random() is drawn from { j / RandDen : 0 <= j < RandDen }
RandDen == 4
\* largest iterations argument of groverAlgorithm
MaxIterations == 2
\* calls made on one QTMachine after its construction
MaxMachineCalls == 4
\* steps one QTMachine executes
MaxSteps == 3
\* calls on one tape
MaxTapeOps == 3

(* --------------------------- exact reals ----------------------------- *)

Pow2(n) == 2 ^ n

RECURSIVE Reduce(_, _, _)
Reduce(a, b, k) ==
    IF k > 0 /\ a % 2 = 0 /\ b % 2 = 0
    THEN Reduce(a \div 2, b \div 2, k - 1)
    ELSE <<a, b, k>>

RInt(n) == <<n, 0, 0>>
RZero == RInt(0)
ROne == RInt(1)

RAdd(x, y) ==
    IF x = RZero THEN y
    ELSE IF y = RZero THEN x
    ELSE LET K == IF x[3] > y[3] THEN x[3] ELSE y[3]
         IN  Reduce(x[1] * Pow2(K - x[3]) + y[1] * Pow2(K - y[3]),
                    x[2] * Pow2(K - x[3]) + y[2] * Pow2(K - y[3]), K)

RNeg(x) == <<0 - x[1], 0 - x[2], x[3]>>

RSub(x, y) == RAdd(x, RNeg(y))

RMul(x, y) ==
    IF x = RZero \/ y = RZero THEN RZero
    ELSE IF x = ROne THEN y
    ELSE IF y = ROne THEN x
    ELSE Reduce(x[1] * y[1] + 2 * x[2] * y[2], x[1] * y[2] + x[2] * y[1], x[3] + y[3])

Sgn(n) == IF n > 0 THEN 1 ELSE IF n < 0 THEN 0 - 1 ELSE 0

\* sign of a + b*sqrt(2)
RSign(x) ==
    LET a == x[1]
        b == x[2]
    IN  IF a >= 0 /\ b >= 0 THEN Sgn(a + b)
        ELSE IF a <= 0 /\ b <= 0 THEN 0 - 1
        ELSE IF a > 0 THEN Sgn(a * a - 2 * b * b)
        ELSE Sgn(2 * b * b - a * a)

RLess(x, y) == RSign(RSub(x, y)) < 0

\* 1/Math.sqrt(2)
InvSqrt2 == <<0, 1, 1>>

(* ------------------------- the range of doubles ---------------------- *)

\* Some arguments are scaled by a power of two: the pair (x, e) stands for
\* x * 2^e, which is exact in a double.  The model never forms 2^e; it
\* compares the binary order of x * 2^e with the order of a threshold.

\* a product or sum at or above 2^1024 is Infinity
DoubleOverflowExponent == 1024
\* 2^-50 < 1e-15 < 2^-49
Eps15Bits == 50
\* 2^-100 < 1e-30 < 2^-99
Eps30Bits == 100

\* the reals whose order is bounded below: |a| + 2|b| < 2^CoefficientBits
CoefficientBits == 10

Abs(n) == IF n < 0 THEN 0 - n ELSE n

SmallCoefficients(x) == Abs(x[1]) + 2 * Abs(x[2]) < Pow2(CoefficientBits)

\* the largest m with 2^m <= n, for n >= 1
RECURSIVE Log2Floor(_)
Log2Floor(n) == IF n <= 1 THEN 0 ELSE 1 + Log2Floor(n \div 2)

\* for x # 0 with small coefficients, 2^OrderLow(x) <= |x| < 2^OrderHigh(x).
\* For x = a / 2^k the bounds are the binade of a.  Otherwise
\* |a + b*sqrt2| < |a| + 2|b|, and |a + b*sqrt2| * |a - b*sqrt2| is a
\* non-zero integer, so |a + b*sqrt2| > 1 / (|a| + 2|b|).
OrderLow(x) ==
    IF x[2] = 0 THEN Log2Floor(Abs(x[1])) - x[3] ELSE 0 - x[3] - CoefficientBits

OrderHigh(x) ==
    IF x[2] = 0 THEN Log2Floor(Abs(x[1])) + 1 - x[3] ELSE CoefficientBits - x[3]

\* x * 2^e / d < t for a threshold t with 2^-bits < t < 2^-(bits - 1),
\* x >= 0 and d > 0; defined where the orders decide it
RatioBelow(x, d, e, bits) ==
    CASE x = RZero -> TRUE
      [] /\ x # RZero /\ SmallCoefficients(x) /\ SmallCoefficients(d)
         /\ OrderHigh(x) + e - OrderLow(d) <= 0 - bits -> TRUE
      [] /\ x # RZero /\ SmallCoefficients(x) /\ SmallCoefficients(d)
         /\ OrderLow(x) + e - OrderHigh(d) >= 1 - bits -> FALSE

\* x * 2^e / d >= 2^n, x >= 0 and d > 0; defined where the orders decide it
RatioAtLeastPow2(x, d, e, n) ==
    CASE x = RZero -> FALSE
      [] /\ x # RZero /\ SmallCoefficients(x) /\ SmallCoefficients(d)
         /\ OrderLow(x) + e - OrderHigh(d) >= n -> TRUE
      [] /\ x # RZero /\ SmallCoefficients(x) /\ SmallCoefficients(d)
         /\ OrderHigh(x) + e - OrderLow(d) <= n -> FALSE

(* ----------------------------- Complex ------------------------------- *)

Complex(re, im) == [re |-> re, im |-> im]

ZERO == Complex(RZero, RZero)
ONE == Complex(ROne, RZero)
CI == Complex(RZero, ROne)
MINUS_I == Complex(RZero, RInt(0 - 1))

add(z, w) == Complex(RAdd(z.re, w.re), RAdd(z.im, w.im))

mul(z, w) ==
    Complex(RSub(RMul(z.re, w.re), RMul(z.im, w.im)),
            RAdd(RMul(z.re, w.im), RMul(z.im, w.re)))

\* abs() * abs(), i.e. Math.sqrt(re*re + im*im) squared
AbsSq(z) == RAdd(RMul(z.re, z.re), RMul(z.im, z.im))

\* 2^m = n
IsPow2(n) == n >= 1 /\ Pow2(Log2Floor(n)) = n

\* x / d for a divisor d = 2^m, m any integer; other divisors are not in
\* the model
RDivPow2(x, d) ==
    CASE d[2] = 0 /\ d[1] = 1 -> Reduce(x[1] * Pow2(d[3]), x[2] * Pow2(d[3]), x[3])
      [] d[2] = 0 /\ d[1] > 1 /\ d[3] = 0 /\ IsPow2(d[1]) ->
            Reduce(x[1], x[2], x[3] + Log2Floor(d[1]))

\* div's guard `Math.abs(denominator) < 1e-15` for the divisor w * 2^e:
\* denominator = |w|^2 * 2^(2e)
divThrows(w, e) == RatioBelow(AbsSq(w), ROne, 2 * e, Eps15Bits)

\* z.div(w) when it does not throw.  For z * 2^ez and w * 2^ew the
\* numerators carry 2^(ez + ew) and the denominator 2^(2 ew): the quotient is
\* div(z, w) * 2^(ez - ew)
div(z, w) ==
    LET denominator == RAdd(RMul(w.re, w.re), RMul(w.im, w.im))
    IN  Complex(RDivPow2(RAdd(RMul(z.re, w.re), RMul(z.im, w.im)), denominator),
                RDivPow2(RSub(RMul(z.im, w.re), RMul(z.re, w.im)), denominator))

\* Complex.exp(Math.PI / 4) = cos(pi/4) + i sin(pi/4)
ExpPiOver4 == Complex(InvSqrt2, InvSqrt2)

(* --------------------------- QuantumMatrix --------------------------- *)

\* a matrix is a sequence of rows; row r, column c of the program's
\* elements[r][c] (0-based) is M[r + 1][c + 1]
Elem(M, r, c) == M[r + 1][c + 1]

RECURSIVE RowSum(_, _, _, _)
RowSum(row, vector, j, sum) ==
    IF j = Len(row) THEN sum
    ELSE RowSum(row, vector, j + 1, add(sum, mul(row[j + 1], vector[j])))

\* QuantumMatrix.apply(vector), vector indexed from 0
apply(M, vector) == [i \in 0 .. (Len(M) - 1) |-> RowSum(M[i + 1], vector, 0, ZERO)]

\* QuantumMatrix.tensorProduct(other): row i*rows(other)+k, col j*cols(other)+l
tensorProduct(A, B) ==
    [r \in 1 .. (Len(A) * Len(B)) |->
        [c \in 1 .. (Len(A[1]) * Len(B[1])) |->
            mul(Elem(A, (r - 1) \div Len(B), (c - 1) \div Len(B[1])),
                Elem(B, (r - 1) % Len(B), (c - 1) % Len(B[1])))]]

(* ---------------------------- QuantumGates --------------------------- *)

MinusOne == Complex(RInt(0 - 1), RZero)
invSqrt2 == Complex(InvSqrt2, RZero)
negInvSqrt2 == Complex(RNeg(InvSqrt2), RZero)

GateI == << <<ONE, ZERO>>, <<ZERO, ONE>> >>
GateX == << <<ZERO, ONE>>, <<ONE, ZERO>> >>
GateY == << <<ZERO, MINUS_I>>, <<CI, ZERO>> >>
GateZ == << <<ONE, ZERO>>, <<ZERO, MinusOne>> >>
GateH == << <<invSqrt2, invSqrt2>>, <<invSqrt2, negInvSqrt2>> >>
GateS == << <<ONE, ZERO>>, <<ZERO, CI>> >>
GateT == << <<ONE, ZERO>>, <<ZERO, ExpPiOver4>> >>

\* CNOT without the exchange of its last two rows
CNOTUnswapped == << <<ONE, ZERO, ZERO, ZERO>>, <<ZERO, ONE, ZERO, ZERO>>,
                    <<ZERO, ZERO, ONE, ZERO>>, <<ZERO, ZERO, ZERO, ONE>> >>

CNOT == << <<ONE, ZERO, ZERO, ZERO>>, <<ZERO, ONE, ZERO, ZERO>>,
           <<ZERO, ZERO, ZERO, ONE>>, <<ZERO, ZERO, ONE, ZERO>> >>
CZ == << <<ONE, ZERO, ZERO, ZERO>>, <<ZERO, ONE, ZERO, ZERO>>,
         <<ZERO, ZERO, ONE, ZERO>>, <<ZERO, ZERO, ZERO, MinusOne>> >>
SWAP == << <<ONE, ZERO, ZERO, ZERO>>, <<ZERO, ZERO, ONE, ZERO>>,
           <<ZERO, ONE, ZERO, ZERO>>, <<ZERO, ZERO, ZERO, ONE>> >>
CH == << <<ONE, ZERO, ZERO, ZERO>>, <<ZERO, ONE, ZERO, ZERO>>,
         <<ZERO, ZERO, invSqrt2, invSqrt2>>, <<ZERO, ZERO, invSqrt2, negInvSqrt2>> >>

SingleGateNames == {"I", "X", "Y", "Z", "H", "S", "T"}
CatalogTwoGateNames == {"CNOT", "CZ", "SWAP", "CH"}
\* the catalog's 4x4 gates are all symmetric; I (x) Y, built with
\* tensorProduct, is a 4x4 matrix that is not
TwoGateNames == CatalogTwoGateNames \cup {"IxY"}

SingleGate(name) ==
    CASE name = "I" -> GateI
      [] name = "X" -> GateX
      [] name = "Y" -> GateY
      [] name = "Z" -> GateZ
      [] name = "H" -> GateH
      [] name = "S" -> GateS
      [] name = "T" -> GateT

TwoGate(name) ==
    CASE name = "CNOT" -> CNOT
      [] name = "CZ" -> CZ
      [] name = "SWAP" -> SWAP
      [] name = "CH" -> CH
      [] name = "IxY" -> tensorProduct(GateI, GateY)

(* --------------------------- QuantumRegister ------------------------- *)

\* (state >> q) & 1
Bit(state, q) == (state \div Pow2(q)) % 2

\* state ^ (1 << q)
Flip(state, q) == IF Bit(state, q) = 0 THEN state + Pow2(q) ELSE state - Pow2(q)

\* (state & ~(1 << q)) | (b << q)
SetBit(state, q, b) == state - Bit(state, q) * Pow2(q) + b * Pow2(q)

Dimension(n) == Pow2(n)

\* the largest register the constructor accepts
MaxRegisterQubits == 20

\* qubitCountInvalid accepting a register of no qubits
qubitCountInvalidAcceptsZero(n) == n < 0 \/ n > MaxRegisterQubits

\* the constructor's guard `numQubits < 1 || numQubits > 20`
qubitCountInvalid(n) == n < 1 \/ n > MaxRegisterQubits

\* IndexOutOfRange accepting the index one past the end
IndexOutOfRangeOffByOne(i, size) == i < 0 \/ i > size

\* the guard `i < 0 || i >= size` of setAmplitude (size = dimension) and of
\* applySingleQubitGate, applyTwoQubitGate and measureQubit (size = numQubits)
IndexOutOfRange(i, size) == i < 0 \/ i >= size

\* initialize(): every amplitude ZERO, then amplitudes[0] = ONE
initialize(n) == [i \in 0 .. (Dimension(n) - 1) |-> IF i = 0 THEN ONE ELSE ZERO]

\* setAmplitude(basisState, amplitude) with a valid index
setAmplitude(amps, basisState, amplitude) == [amps EXCEPT ![basisState] = amplitude]

RECURSIVE SumFrom(_, _, _)
SumFrom(f, i, hi) == IF i > hi THEN RZero ELSE RAdd(f[i], SumFrom(f, i + 1, hi))

\* numerators of getAllProbabilities(): the probability of index s is
\* rawProbabilities(amps)[s] / scale
rawProbabilities(amps) == [s \in DOMAIN amps |-> AbsSq(amps[s])]

RawNorm(amps) ==
    LET p == rawProbabilities(amps)
    IN  SumFrom(p, 0, Cardinality(DOMAIN amps) - 1)


RECURSIVE CSumFrom(_, _, _)
CSumFrom(f, i, hi) == IF i > hi THEN ZERO ELSE add(f[i], CSumFrom(f, i + 1, hi))

\* SingleContribution with the off-diagonal matrix elements exchanged
SingleContributionSwapped(amps, gate, q, state, x) ==
    LET flippedState == Flip(state, q)
    IN  IF Bit(state, q) = 0
        THEN IF x = state THEN mul(Elem(gate, 0, 0), amps[state])
             ELSE IF x = flippedState THEN mul(Elem(gate, 0, 1), amps[state])
             ELSE ZERO
        ELSE IF x = state THEN mul(Elem(gate, 1, 1), amps[state])
             ELSE IF x = flippedState THEN mul(Elem(gate, 1, 0), amps[state])
             ELSE ZERO

\* what the iteration `state` of applySingleQubitGate's loop adds to
\* newAmplitudes[x]
SingleContribution(amps, gate, q, state, x) ==
    LET flippedState == Flip(state, q)
    IN  IF Bit(state, q) = 0
        THEN IF x = state THEN mul(Elem(gate, 0, 0), amps[state])
             ELSE IF x = flippedState THEN mul(Elem(gate, 1, 0), amps[state])
             ELSE ZERO
        ELSE IF x = state THEN mul(Elem(gate, 1, 1), amps[state])
             ELSE IF x = flippedState THEN mul(Elem(gate, 0, 1), amps[state])
             ELSE ZERO

\* applySingleQubitGate(gate, targetQubit) with a valid targetQubit:
\* newAmplitudes starts at ZERO and collects the contributions of every
\* iteration state = 0 .. dimension - 1
applySingleQubitGate(amps, gate, targetQubit) ==
    [x \in DOMAIN amps |->
        CSumFrom([state \in DOMAIN amps |->
                     SingleContribution(amps, gate, targetQubit, state, x)],
                 0, Cardinality(DOMAIN amps) - 1)]

\* the index newState written for outputState in applyTwoQubitGate's inner loop
TwoNewState(state, controlQubit, targetQubit, outputState) ==
    SetBit(SetBit(state, controlQubit, outputState \div 2), targetQubit, outputState % 2)

\* TwoInputState with the roles of the control and target bits exchanged
TwoInputStateSwapped(state, controlQubit, targetQubit) ==
    Bit(state, targetQubit) * 2 + Bit(state, controlQubit)

\* the selector inputState of an index
TwoInputState(state, controlQubit, targetQubit) ==
    Bit(state, controlQubit) * 2 + Bit(state, targetQubit)

\* what the iteration (state, outputState) of applyTwoQubitGate's loops adds
\* to newAmplitudes[x]
TwoContribution(amps, gate, c, t, state, outputState, x) ==
    IF TwoNewState(state, c, t, outputState) = x
    THEN mul(Elem(gate, outputState, TwoInputState(state, c, t)), amps[state])
    ELSE ZERO

\* applyTwoQubitGate(gate, controlQubit, targetQubit) with valid, distinct
\* qubits: newAmplitudes starts at ZERO and collects the contributions of
\* every iteration state = 0 .. dimension - 1, outputState = 0 .. 3
applyTwoQubitGate(amps, gate, controlQubit, targetQubit) ==
    [x \in DOMAIN amps |->
        CSumFrom([state \in DOMAIN amps |->
                     CSumFrom([outputState \in 0 .. 3 |->
                                  TwoContribution(amps, gate, controlQubit, targetQubit,
                                                  state, outputState, x)], 0, 3)],
                 0, Cardinality(DOMAIN amps) - 1)]

\* random < cumulativeProb, for random = j / RandDen and
\* cumulativeProb = cumRaw / sc  (sc > 0)
RandomBelow(j, cumRaw, sc) == RLess(RMul(RInt(j), sc), RMul(RInt(RandDen), cumRaw))

\* measureAll's loop: the first index whose cumulative probability exceeds
\* random, or -1 when the loop ends without returning
RECURSIVE MeasureAllLoop(_, _, _, _, _)
MeasureAllLoop(amps, sc, j, i, cumulativeProb) ==
    IF i = Cardinality(DOMAIN amps) THEN 0 - 1
    ELSE LET cum == RAdd(cumulativeProb, AbsSq(amps[i]))
         IN  IF RandomBelow(j, cum, sc) THEN i
             ELSE MeasureAllLoop(amps, sc, j, i + 1, cum)

\* the vector measureAll leaves for loop outcome i: initialize(), then
\* amplitudes[i] = ONE; the fallback after the loop is initialize() alone
MeasureAllCollapse(n, i) ==
    IF i >= 0 THEN setAmplitude(initialize(n), i, ONE) ELSE initialize(n)

\* measureAll() with Math.random() = j / RandDen
measureAll(amps, sc, n, j) ==
    LET i == MeasureAllLoop(amps, sc, j, 0, RZero)
    IN  [result |-> IF i >= 0 THEN i ELSE 0,
         amplitudes |-> MeasureAllCollapse(n, i),
         scale |-> ROne]

\* sum of |amplitude|^2 numerators over the indices whose bit q is b
RawProbOfBit(amps, q, b) ==
    LET p == [s \in DOMAIN amps |-> IF Bit(s, q) = b THEN AbsSq(amps[s]) ELSE RZero]
    IN  SumFrom(p, 0, Cardinality(DOMAIN amps) - 1)

\* const result = random < prob0 ? 0 : 1
MeasureQubitResult(amps, sc, q, j) ==
    IF RandomBelow(j, RawProbOfBit(amps, q, 0), sc) THEN 0 ELSE 1

\* the collapse loop: survivors are cloned, the others set to ZERO
MeasureQubitCollapse(amps, q, result) ==
    [s \in DOMAIN amps |-> IF Bit(s, q) = result THEN amps[s] ELSE ZERO]

\* MeasureQubitScale without the division by Math.sqrt(normalizationFactor)
MeasureQubitScaleUnnormalized(amps, sc, q, result) == sc

\* the scale after dividing every amplitude by Math.sqrt(normalizationFactor)
\* when normalizationFactor > 0.  With stored amplitudes a[s] / sqrt(sc),
\* normalizationFactor = raw / sc for raw = sum of |a[s]|^2 over the
\* survivors, and (a[s] / sqrt(sc)) / sqrt(raw / sc) = a[s] / sqrt(raw).
MeasureQubitScale(amps, sc, q, result) ==
    LET raw == RawProbOfBit(amps, q, result)
    IN  IF RSign(raw) > 0 THEN raw ELSE sc

\* measureQubit(qubitIndex) with Math.random() = j / RandDen
measureQubit(amps, sc, qubitIndex, j) ==
    LET result == MeasureQubitResult(amps, sc, qubitIndex, j)
    IN  [result |-> result,
         amplitudes |-> MeasureQubitCollapse(amps, qubitIndex, result),
         scale |-> MeasureQubitScale(amps, sc, qubitIndex, result)]

\* probabilities of the 2-qubit states the entropy is evaluated on are 0 or
\* 2^-m; Log2Neg(p) = -log2(p) = m for such p
IsPow2Inv(p) == p[2] = 0 /\ p[1] = 1

\* getEntropy() * 1, for a register (scale 1) whose non-zero probabilities
\* are all of the form 2^-m: the sum of p * m
EntropyDefined(amps) ==
    \A s \in DOMAIN amps : AbsSq(amps[s]) = RZero \/ IsPow2Inv(AbsSq(amps[s]))

getEntropy(amps) ==
    LET t == [s \in DOMAIN amps |->
                 IF AbsSq(amps[s]) = RZero THEN RZero
                 ELSE RMul(AbsSq(amps[s]), RInt(AbsSq(amps[s])[3]))]
    IN  SumFrom(t, 0, Cardinality(DOMAIN amps) - 1)

\* getEntanglementMeasure() for numQubits in {1, 2}
getEntanglementMeasure(amps, n) ==
    IF n = 1 THEN RZero
    ELSE IF RLess(getEntropy(amps), ROne) THEN getEntropy(amps) ELSE ROne

\* static constructors
createBellPhiPlus ==
    setAmplitude(setAmplitude(initialize(2), 0, invSqrt2), 3, invSqrt2)

createGHZ ==
    setAmplitude(setAmplitude(initialize(3), 0, invSqrt2), 7, invSqrt2)

\* 1/Math.sqrt(m) for m a power of two, m = 2^e: (1/sqrt 2)^e
RECURSIVE InvSqrtPow2(_)
InvSqrtPow2(e) == IF e = 0 THEN ROne ELSE RMul(InvSqrt2, InvSqrtPow2(e - 1))

createUniformSuperposition(n) ==
    [i \in 0 .. (Dimension(n) - 1) |-> Complex(InvSqrtPow2(n), RZero)]

\* createWState's loop for i = 0 .. numQubits - 1, amp = 1/Math.sqrt(numQubits)
RECURSIVE WLoop(_, _, _, _)
WLoop(amps, n, amp, i) ==
    IF i = n THEN amps
    ELSE WLoop(setAmplitude(amps, Pow2(n - 1 - i), amp), n, amp, i + 1)

\* log2 of the qubit counts for which 1/sqrt(numQubits) is representable
WExponent(n) == IF n = 1 THEN 0 ELSE IF n = 2 THEN 1 ELSE 2
WQubitCounts == {n \in 1 .. MaxQubits : n \in {1, 2, 4}}

createWState(n) ==
    WLoop(initialize(n), n, Complex(InvSqrtPow2(WExponent(n)), RZero), 0)


(* ----------------------------- QuantumState -------------------------- *)

\* A QuantumState is the vector (0 :> alpha @@ 1 :> beta) with a scale, as a
\* register: the stored alpha is alpha / sqrt(scale).

QState(alpha, beta, sc) == [amplitudes |-> (0 :> alpha @@ 1 :> beta), scale |-> sc]

\* normalize() on amplitudes alpha * 2^e / sqrt(sc) and beta * 2^e / sqrt(sc):
\* norm^2 = (|alpha|^2 + |beta|^2) * 2^(2e) / sc.  When the sum of squares
\* is Infinity so is norm, norm < 1e-15 is false and every finite part
\* divided by norm is 0.
stateNormalize(alpha, beta, sc, e) ==
    LET raw == RAdd(AbsSq(alpha), AbsSq(beta))
    IN  IF RatioAtLeastPow2(raw, sc, 2 * e, DoubleOverflowExponent)
        THEN QState(ZERO, ZERO, ROne)
        ELSE IF RatioBelow(raw, sc, 2 * e, Eps30Bits)
        THEN QState(ONE, ZERO, ROne)
        ELSE QState(alpha, beta, raw)

\* stateMeasureResult with `random <= prob0`
stateMeasureResultInclusive(amps, sc, j) ==
    IF ~RLess(RMul(RInt(RandDen), AbsSq(amps[0])), RMul(RInt(j), sc)) THEN 0 ELSE 1

\* measure(): random < prob0 ? 0 : 1
stateMeasureResult(amps, sc, j) ==
    IF RandomBelow(j, AbsSq(amps[0]), sc) THEN 0 ELSE 1

\* the state measure() leaves for result b
stateCollapse(b) == IF b = 0 THEN QState(ONE, ZERO, ROne) ELSE QState(ZERO, ONE, ROne)

\* QuantumGates.applySingleQubitGate(state, gate): gate.apply([alpha, beta]),
\* then new QuantumState(result[0], result[1])
stateApplyGate(amps, sc, gate) ==
    LET result == apply(gate, amps)
    IN  stateNormalize(result[0], result[1], sc, 0)

\* QuantumState.zero()
stateZero == QState(ONE, ZERO, ROne)

\* Math.sqrt of a perfect square
ISqrt(n) == CHOOSE r \in 0 .. n : r * r = n

IsSquare(n) == \E r \in 0 .. n : r * r = n

\* Math.sqrt(x) for x = r^2 / 2^k and x = 2 r^2 / 2^k, r an integer; the
\* square roots of other numbers are not in the model
RSqrt(x) ==
    CASE x[2] = 0 /\ x[1] >= 0 /\ IsSquare(x[1]) ->
            RMul(RInt(ISqrt(x[1])), InvSqrtPow2(x[3]))
      [] x[2] = 0 /\ x[1] > 0 /\ ~IsSquare(x[1]) /\ x[1] % 2 = 0 /\ IsSquare(x[1] \div 2) ->
            RMul(<<0, ISqrt(x[1] \div 2), 0>>, InvSqrtPow2(x[3]))

\* QuantumGates.applyTwoQubitGate(state1, state2, gate): the tensor product,
\* gate.apply, then the two states built from the magnitudes of the result.
\* With stored amplitudes a / sqrt(sc) the magnitude result[k].abs() is
\* m[k] / sqrt(scale1 * scale2), and the division by Math.sqrt(2) puts a
\* further 2 under the root.
gatesApplyTwoQubitGate(state1, state2, gate) ==
    LET vector == [k \in 0 .. 3 |->
                      mul(state1.amplitudes[k \div 2], state2.amplitudes[k % 2])]
        result == apply(gate, vector)
        m == [k \in 0 .. 3 |-> RSqrt(AbsSq(result[k]))]
        sc == RMul(RInt(2), RMul(state1.scale, state2.scale))
    IN  <<stateNormalize(Complex(RAdd(m[0], m[1]), RZero),
                         Complex(RAdd(m[2], m[3]), RZero), sc, 0),
          stateNormalize(Complex(RAdd(m[0], m[2]), RZero),
                         Complex(RAdd(m[1], m[3]), RZero), sc, 0)>>

\* the static constructors zero(), one(), plus(), minus(), plusI(), minusI()
StateNames == {"zero", "one", "plus", "minus", "plusI", "minusI"}

namedState(name) ==
    CASE name = "zero" -> stateNormalize(ONE, ZERO, ROne, 0)
      [] name = "one" -> stateNormalize(ZERO, ONE, ROne, 0)
      [] name = "plus" -> stateNormalize(invSqrt2, invSqrt2, ROne, 0)
      [] name = "minus" -> stateNormalize(invSqrt2, negInvSqrt2, ROne, 0)
      [] name = "plusI" -> stateNormalize(invSqrt2, Complex(RZero, InvSqrt2), ROne, 0)
      [] name = "minusI" ->
            stateNormalize(invSqrt2, Complex(RZero, RNeg(InvSqrt2)), ROne, 0)

(* ----------------------------- QuantumTape --------------------------- *)

\* the largest tape the constructor accepts
MaxTapeCells == 100

\* the constructor's guard `size < 1 || size > 100`, for a number size
tapeSizeInvalid(size) == size < 1 \/ size > MaxTapeCells

\* an entry of operationHistory: the operation and its position (step is
\* the entry's place in the sequence)
TapeEntry(operation, position) == [operation |-> operation, position |-> position]

\* addToHistory(operation, position); the cut at 1000 entries is never reached
tapeAddToHistory(t, operation, position) ==
    [t EXCEPT !.operationHistory = Append(@, TapeEntry(operation, position))]

\* new QuantumTape(size, type) for an integer size the guard accepts:
\* initializeTape() fills the cells with |0> and puts the head in the middle
newTape(size, type) ==
    [size |-> size, type |-> type,
     cells |-> [i \in 0 .. (size - 1) |-> stateZero],
     headPosition |-> size \div 2,
     operationHistory |-> <<>>]

\* new QuantumTape(size) for a size that is a string which is not a number,
\* the type left to its default: `size < 1` and `size > 100` compare NaN and
\* are false, `i < this.size` is false at once, and the head is
\* Math.floor(NaN)
newTapeOfString(size) ==
    [size |-> size, type |-> "work", cells |-> <<>>, headPosition |-> "NaN",
     operationHistory |-> <<>>]

\* getState(position): |0> outside the tape
tapeGetState(t, position) ==
    IF position < 0 \/ position >= t.size THEN stateZero ELSE t.cells[position]

\* setState(position, state): nothing outside the tape
tapeSetState(t, position, state) ==
    IF position >= 0 /\ position < t.size
    THEN tapeAddToHistory([t EXCEPT !.cells[position] = state], "setState", position)
    ELSE t

\* tapeMoveLeft whose guard lets the head leave cell 0
tapeMoveLeftUnguarded(t) ==
    IF t.headPosition >= 0
    THEN [result |-> TRUE,
          tape |-> tapeAddToHistory([t EXCEPT !.headPosition = @ - 1],
                                    "moveLeft", t.headPosition)]
    ELSE [result |-> FALSE, tape |-> t]

\* moveLeft()
tapeMoveLeft(t) ==
    IF t.headPosition > 0
    THEN [result |-> TRUE,
          tape |-> tapeAddToHistory([t EXCEPT !.headPosition = @ - 1],
                                    "moveLeft", t.headPosition)]
    ELSE [result |-> FALSE, tape |-> t]

\* moveRight()
tapeMoveRight(t) ==
    IF t.headPosition < t.size - 1
    THEN [result |-> TRUE,
          tape |-> tapeAddToHistory([t EXCEPT !.headPosition = @ + 1],
                                    "moveRight", t.headPosition)]
    ELSE [result |-> FALSE, tape |-> t]

\* gate names handed to applyGate, lower-cased; "t" is left out because the
\* magnitudes of H T |0> have no square root in the model's numbers, and
\* "unknown" stands for every name the switch does not list
TapeGateNames == {"h", "x", "y", "z", "s", "unknown"}

\* the switch of applyGate
tapeGateState(state, gateName) ==
    CASE gateName = "h" -> stateApplyGate(state.amplitudes, state.scale, GateH)
      [] gateName = "x" -> stateApplyGate(state.amplitudes, state.scale, GateX)
      [] gateName = "y" -> stateApplyGate(state.amplitudes, state.scale, GateY)
      [] gateName = "z" -> stateApplyGate(state.amplitudes, state.scale, GateZ)
      [] gateName = "s" -> stateApplyGate(state.amplitudes, state.scale, GateS)
      [] OTHER -> state

\* applyGate(gateName): the cell under the head, then setCurrentState and
\* the gate's own entry
tapeApplyGate(t, gateName) ==
    LET newState == tapeGateState(tapeGetState(t, t.headPosition), gateName)
    IN  tapeAddToHistory(tapeSetState(t, t.headPosition, newState),
                         "gate:" \o gateName, t.headPosition)

TapeTwoGateNames == {"cnot", "cz", "unknown"}

\* applyTwoQubitGate(gateName, targetPosition)
tapeApplyTwoQubitGate(t, gateName, targetPosition) ==
    IF targetPosition < 0 \/ targetPosition >= t.size \/ targetPosition = t.headPosition
    THEN [result |-> FALSE, tape |-> t]
    ELSE IF gateName \notin {"cnot", "cz"}
    THEN [result |-> FALSE, tape |-> t]
    ELSE LET newStates ==
                 gatesApplyTwoQubitGate(tapeGetState(t, t.headPosition),
                                        tapeGetState(t, targetPosition),
                                        IF gateName = "cnot" THEN CNOT ELSE CZ)
             t1 == tapeSetState(t, t.headPosition, newStates[1])
             t2 == tapeSetState(t1, targetPosition, newStates[2])
         IN  [result |-> TRUE,
              tape |-> tapeAddToHistory(t2, "twoQubit:" \o gateName, t.headPosition)]

\* measureCurrent() with Math.random() = j / RandDen
tapeMeasureCurrent(t, j) ==
    LET currentState == tapeGetState(t, t.headPosition)
        result == stateMeasureResult(currentState.amplitudes, currentState.scale, j)
    IN  [result |-> result,
         tape |-> tapeAddToHistory(tapeSetState(t, t.headPosition, stateCollapse(result)),
                                   "measure", t.headPosition)]

\* measureAll's loop from cell i on; samples[i] / RandDen is the sample of
\* cell i's measure()
RECURSIVE tapeMeasureAllLoop(_, _, _)
tapeMeasureAllLoop(t, samples, i) ==
    IF i >= t.size THEN t
    ELSE LET state == tapeGetState(t, i)
             result == stateMeasureResult(state.amplitudes, state.scale, samples[i])
         IN  tapeMeasureAllLoop(tapeSetState(t, i, stateCollapse(result)), samples, i + 1)

\* measureAll()
tapeMeasureAll(t, samples) ==
    LET after == tapeMeasureAllLoop(t, samples, 0)
    IN  [results |-> [i \in 0 .. (t.size - 1) |->
                         IF after.cells[i] = stateCollapse(0) THEN 0 ELSE 1],
         tape |-> tapeAddToHistory(after, "measureAll", 0 - 1)]

\* reset(): initializeTape(), an empty history, then the entry 'reset'
tapeReset(t) ==
    tapeAddToHistory([newTape(t.size, t.type) EXCEPT !.operationHistory = <<>>],
                     "reset", 0 - 1)

(* ------------------------------ QTMachine ---------------------------- *)

\* the methods class QuantumRegister defines
RegisterMethods ==
    {"initialize", "getAmplitude", "setAmplitude", "normalize", "isNormalized",
     "getProbability", "getAllProbabilities", "applySingleQubitGate",
     "applyTwoQubitGate", "measureAll", "measureQubit", "clone",
     "basisStateToString", "stringToBasisState", "toString",
     "getEntanglementMeasure", "getEntropy"}

\* new QTMachine(): the fields the calls below read or write.  Each tape is
\* made by new QuantumTape(name) with the name in the place of size.
\* timers counts the pending setTimeout(() => this.runContinuous()) callbacks.
newMachine ==
    [mode |-> "manual", isRunning |-> FALSE, isPaused |-> FALSE, stepCount |-> 0,
     history |-> <<>>, timers |-> 0,
     tapes |-> <<newTapeOfString("input"), newTapeOfString("work"),
                 newTapeOfString("output")>>]

\* runContinuous() in manual mode: step() counts the step and records it
\* (executeManualStep only reads the clock), then setTimeout
machineRunContinuous(m) ==
    IF ~m.isRunning \/ m.isPaused THEN m
    ELSE [m EXCEPT !.stepCount = @ + 1, !.history = Append(@, "step"),
                   !.timers = @ + 1]

\* start() in manual mode
machineStart(m) ==
    IF m.isRunning THEN m
    ELSE machineRunContinuous([m EXCEPT !.isRunning = TRUE, !.isPaused = FALSE,
                                        !.history = Append(@, "start")])

\* stop()
machineStop(m) ==
    IF ~m.isRunning THEN m
    ELSE [m EXCEPT !.isRunning = FALSE, !.history = Append(@, "stop")]

\* pause()
machinePause(m) ==
    IF ~m.isRunning THEN m ELSE [m EXCEPT !.isPaused = ~@]

(* ---------------------------- QuantumAlgorithms ---------------------- *)

DeutschFunctionTypes == {"constant-0", "constant-1", "balanced-identity", "balanced-not"}

\* step 1 of deutschAlgorithm: new QuantumRegister(2), setAmplitude(1, ONE)
deutschInitialState == setAmplitude(initialize(2), 1, ONE)

\* gateMatrix chosen by applyDeutschOracle's switch
deutschGateMatrix(functionType) ==
    CASE functionType = "constant-0" -> tensorProduct(GateI, GateI)
      [] functionType = "constant-1" -> tensorProduct(GateI, GateX)
      [] functionType = "balanced-identity" -> CNOT
      [] functionType = "balanced-not" -> CNOT

\* applyDeutschOracle(register, functionType): 'balanced-not' applies X to
\* qubit 1 inside the switch and skips the matrix; the others apply
\* gateMatrix to the whole vector
applyDeutschOracle(amps, functionType) ==
    IF functionType = "balanced-not"
    THEN applySingleQubitGate(amps, GateX, 1)
    ELSE apply(deutschGateMatrix(functionType), amps)

\* 'константная' is written "constant" and 'сбалансированная' "balanced"
deutschInterpretation(measurementResult) ==
    IF measurementResult = 0 THEN "constant" ELSE "balanced"

\* checkDeutschResult: functionType.includes('constant') against the
\* interpretation
checkDeutschResult(functionType, interpretation) ==
    (functionType \in {"constant-0", "constant-1"}) = (interpretation = "constant")

\* groverAlgorithm's guard `targetItem < 0 || targetItem > 3`
groverTargetInvalid(targetItem) == targetItem < 0 \/ targetItem > 3

\* the oracle's matrix without the phase inversion
groverOracleMatrixNoFlip(dimension, targetItem) ==
    [r \in 1 .. dimension |-> [c \in 1 .. dimension |-> IF r = c THEN ONE ELSE ZERO]]

\* oracleMatrix of applyGroverOracle: diagonal, -1 at the target, 1 elsewhere
groverOracleMatrix(dimension, targetItem) ==
    [r \in 1 .. dimension |->
        [c \in 1 .. dimension |->
            IF r = c THEN (IF r - 1 = targetItem THEN MinusOne ELSE ONE) ELSE ZERO]]

\* applyGroverOracle(register, targetItem): reads every amplitude, applies
\* the matrix, writes every amplitude back
applyGroverOracle(amps, targetItem) ==
    apply(groverOracleMatrix(Cardinality(DOMAIN amps), targetItem), amps)

\* optimalIterations = Math.floor(Math.PI / 4 * Math.sqrt(4)), the floor of
\* 1.5707...
optimalIterations == 1

\* `iterations = iterations ?? optimalIterations`: the argument is <<>> when
\* it is omitted (null) and <<n>> when it is the number n
groverIterations(iterations) ==
    IF iterations = <<>> THEN optimalIterations ELSE iterations[1]

\* applyGroverDiffuser(register), steps 1 and 3: H on qubit 0, H on qubit 1
groverDiffuserHadamards(amps) ==
    applySingleQubitGate(applySingleQubitGate(amps, GateH, 0), GateH, 1)

\* groverDiffuserPhase without the inversion
groverDiffuserPhaseKept(amps) == amps

\* applyGroverDiffuser(register), step 2: amplitude 0 times -1
groverDiffuserPhase(amps) == setAmplitude(amps, 0, mul(amps[0], MinusOne))

BellTypes == {"phi+", "phi-", "psi+", "psi-"}

\* bellCorrection whose 'psi-' case lacks the Z gate
bellCorrectionWithoutZ(amps, bellType) ==
    CASE bellType = "phi-" -> applySingleQubitGate(amps, GateZ, 0)
      [] bellType = "psi+" -> applySingleQubitGate(amps, GateX, 1)
      [] bellType = "psi-" -> applySingleQubitGate(amps, GateX, 1)
      [] OTHER -> amps

\* the switch of createBellState
bellCorrection(amps, bellType) ==
    CASE bellType = "phi-" -> applySingleQubitGate(amps, GateZ, 0)
      [] bellType = "psi+" -> applySingleQubitGate(amps, GateX, 1)
      [] bellType = "psi-" ->
            applySingleQubitGate(applySingleQubitGate(amps, GateZ, 0), GateX, 1)
      [] OTHER -> amps

\* entanglement > 0.95, i.e. 20 * entanglement > 19
isMaximallyEntangled(entanglement) == RLess(RInt(19), RMul(RInt(20), entanglement))

\* quantumAddition's guard `a < 0 || a > 1 || b < 0 || b > 1`.  The
\* arguments are JavaScript numbers; the model writes them in halves (a2 is
\* twice a), so that 0.5 is an input: a < 0 is a2 < 0 and a > 1 is a2 > 2.
additionArgumentsInvalid(a2, b2) == a2 < 0 \/ a2 > 2 \/ b2 < 0 \/ b2 > 2

\* `if (x === 1) register.applySingleQubitGate(QuantumGates.X(), q)`, for
\* x = a, q = 0 and for x = b, q = 1
additionSetInput(amps, x2, q) ==
    IF x2 = 2 THEN applySingleQubitGate(amps, GateX, q) ELSE amps

(* ----------------------------- state machine ------------------------- *)

\* a boolean return value in the result field of a call
BoolResult(b) == IF b THEN 1 ELSE 0

\* the last call made on the register; threw records that it ended in
\* `throw new Error(...)`
Call(name, gate, q1, q2, random, result) ==
    [name |-> name, gate |-> gate, q1 |-> q1, q2 |-> q2, random |-> random,
     result |-> result, threw |-> FALSE]

Threw(call) == [call EXCEPT !.threw = TRUE]

NoCall == Call("none", "", 0 - 1, 0 - 1, 0 - 1, 0 - 1)

\* the record an algorithm returns
AlgResult(functionType, measurementResult, interpretation, isCorrect) ==
    [functionType |-> functionType, measurementResult |-> measurementResult,
     interpretation |-> interpretation, isCorrect |-> isCorrect]

NoAlg == AlgResult("", 0 - 1, "", FALSE)

RandomSamples == 0 .. (RandDen - 1)

\* no QuantumTape and no QTMachine constructed yet
NoTape == [type |-> "none"]
NoMachine == [mode |-> "none"]

\* no register constructed yet
Init ==
    /\ pc = "start"
    /\ numQubits = 0
    /\ amplitudes = initialize(0)
    /\ scale = ROne
    /\ pre = initialize(0)
    /\ preScale = ROne
    /\ op = NoCall
    /\ nOps = 0
    /\ ctor = "none"
    /\ alg = NoAlg
    /\ tape = NoTape
    /\ machine = NoMachine

\* a register returned by a constructor: n qubits, vector amps
Constructed(name, n, amps, calls) ==
    /\ pc = "start"
    /\ pc' = "register"
    /\ numQubits' = n
    /\ amplitudes' = amps
    /\ scale' = ROne
    /\ pre' = amps
    /\ preScale' = ROne
    /\ op' = NoCall
    /\ nOps' = calls
    /\ ctor' = name
    /\ UNCHANGED <<alg, tape, machine>>

\* new QuantumRegister(n): the guard, then dimension, amplitudes, initialize()
NewRegister(n) ==
    IF qubitCountInvalid(n)
    THEN /\ pc = "start"
         /\ pc' = "constructorThrew"
         /\ op' = Threw(Call("new", "", n, 0 - 1, 0 - 1, 0 - 1))
         /\ UNCHANGED <<numQubits, amplitudes, scale, pre, preScale, nOps, ctor, alg, tape, machine>>
    ELSE Constructed("new", n, initialize(n), 0)

CreateBellPhiPlus == Constructed("createBellPhiPlus", 2, createBellPhiPlus, 1)

CreateGHZ == Constructed("createGHZ", 3, createGHZ, 1)

CreateUniformSuperposition(n) ==
    Constructed("createUniformSuperposition", n, createUniformSuperposition(n), 1)

CreateWState(n) == Constructed("createWState", n, createWState(n), 1)

\* a call on the register that leaves vector amps with scale sc
Called(call, amps, sc) ==
    /\ pc = "register"
    /\ nOps < MaxOps
    /\ nOps' = nOps + 1
    /\ pre' = amplitudes
    /\ preScale' = scale
    /\ amplitudes' = amps
    /\ scale' = sc
    /\ op' = call
    /\ UNCHANGED <<pc, numQubits, ctor, alg, tape, machine>>

\* a call that throws before it assigns anything; the exception ends the
\* caller's work on the register
Throws(call) ==
    /\ pc = "register"
    /\ nOps < MaxOps
    /\ pc' = "threw"
    /\ nOps' = nOps + 1
    /\ pre' = amplitudes
    /\ preScale' = scale
    /\ op' = Threw(call)
    /\ UNCHANGED <<numQubits, amplitudes, scale, ctor, alg, tape, machine>>

\* setAmplitude(basisState, amplitude) on a register in the caller's hands;
\* from then on the register is no longer what its constructor made
SetAmplitude(basisState, amplitude) ==
    LET call == Call("setAmplitude", "", basisState, 0 - 1, 0 - 1, 0 - 1)
    IN  IF IndexOutOfRange(basisState, Dimension(numQubits))
        THEN Throws(call)
        ELSE /\ pc = "register"
             /\ nOps < MaxOps
             /\ nOps' = nOps + 1
             /\ pre' = amplitudes
             /\ preScale' = scale
             /\ amplitudes' = setAmplitude(amplitudes, basisState, amplitude)
             /\ scale' = scale
             /\ op' = call
             /\ ctor' = "setAmplitude"
             /\ UNCHANGED <<pc, numQubits, alg, tape, machine>>

ApplySingleQubitGate(g, q) ==
    LET call == Call("applySingleQubitGate", g, q, 0 - 1, 0 - 1, 0 - 1)
    IN  IF IndexOutOfRange(q, numQubits)
        THEN Throws(call)
        ELSE Called(call, applySingleQubitGate(amplitudes, SingleGate(g), q), scale)

ApplyTwoQubitGate(g, c, t) ==
    LET call == Call("applyTwoQubitGate", g, c, t, 0 - 1, 0 - 1)
    IN  IF IndexOutOfRange(c, numQubits) \/ IndexOutOfRange(t, numQubits)
        THEN Throws(call)
        ELSE IF c = t
        THEN Throws(call)
        ELSE Called(call, applyTwoQubitGate(amplitudes, TwoGate(g), c, t), scale)

MeasureAll(j) ==
    LET m == measureAll(amplitudes, scale, numQubits, j)
    IN  Called(Call("measureAll", "", 0 - 1, 0 - 1, j, m.result), m.amplitudes, m.scale)

MeasureQubit(q, j) ==
    IF IndexOutOfRange(q, numQubits)
    THEN Throws(Call("measureQubit", "", q, 0 - 1, j, 0 - 1))
    ELSE LET m == measureQubit(amplitudes, scale, q, j)
         IN  Called(Call("measureQubit", "", q, 0 - 1, j, m.result),
                    m.amplitudes, m.scale)

\* QuantumAlgorithms.applyDeutschOracle(register, functionType) on a
\* two-qubit register in the caller's hands
ApplyDeutschOracle(functionType) ==
    /\ numQubits = 2
    /\ Called(Call("applyDeutschOracle", functionType, 0 - 1, 0 - 1, 0 - 1, 0 - 1),
              applyDeutschOracle(amplitudes, functionType), scale)

\* a step of an algorithm on its own register
AlgStep(from, to, amps, sc, call, result) ==
    /\ pc = from
    /\ pc' = to
    /\ pre' = amplitudes
    /\ preScale' = scale
    /\ amplitudes' = amps
    /\ scale' = sc
    /\ op' = call
    /\ alg' = result
    /\ UNCHANGED <<numQubits, nOps, ctor, tape, machine>>

DeutschStep1(functionType) ==
    /\ pc = "start"
    /\ pc' = "deutsch1"
    /\ numQubits' = 2
    /\ amplitudes' = deutschInitialState
    /\ scale' = ROne
    /\ pre' = deutschInitialState
    /\ preScale' = ROne
    /\ op' = NoCall
    /\ ctor' = "deutschAlgorithm"
    /\ alg' = AlgResult(functionType, 0 - 1, "", FALSE)
    /\ UNCHANGED <<nOps, tape, machine>>

DeutschStep2 ==
    AlgStep("deutsch1", "deutsch2",
            applySingleQubitGate(applySingleQubitGate(amplitudes, GateH, 0), GateH, 1),
            scale, NoCall, alg)

DeutschStep3 ==
    AlgStep("deutsch2", "deutsch3", applyDeutschOracle(amplitudes, alg.functionType),
            scale, NoCall, alg)

DeutschStep4 ==
    AlgStep("deutsch3", "deutsch4", applySingleQubitGate(amplitudes, GateH, 0),
            scale, NoCall, alg)

DeutschStep5(j) ==
    LET m == measureQubit(amplitudes, scale, 0, j)
        interpretation == deutschInterpretation(m.result)
    IN  AlgStep("deutsch4", "deutschDone", m.amplitudes, m.scale,
                Call("measureQubit", "", 0, 0 - 1, j, m.result),
                AlgResult(alg.functionType, m.result, interpretation,
                          checkDeutschResult(alg.functionType, interpretation)))

\* an algorithm creates its register: n qubits, vector amps
AlgStart(to, name, n, amps, result) ==
    /\ pc = "start"
    /\ pc' = to
    /\ numQubits' = n
    /\ amplitudes' = amps
    /\ scale' = ROne
    /\ pre' = amps
    /\ preScale' = ROne
    /\ op' = NoCall
    /\ ctor' = name
    /\ alg' = result
    /\ UNCHANGED <<nOps, tape, machine>>

\* an algorithm throws on its arguments, before it creates a register
AlgThrows(to, result) ==
    /\ pc = "start"
    /\ pc' = to
    /\ alg' = result
    /\ UNCHANGED <<numQubits, amplitudes, scale, pre, preScale, op, nOps, ctor, tape, machine>>

\* groverAlgorithm(targetItem, iterations) up to step 1: the guard, the
\* register, H on both qubits, the first entry of steps
GroverStart(targetItem, iterations) ==
    IF groverTargetInvalid(targetItem)
    THEN AlgThrows("groverThrew",
                   [algorithm |-> "Grover", target |-> targetItem, threw |-> TRUE])
    ELSE LET amps == applySingleQubitGate(
                        applySingleQubitGate(initialize(2), GateH, 0), GateH, 1)
         IN  AlgStart("groverLoop", "groverAlgorithm", 2, amps,
                      [algorithm |-> "Grover", target |-> targetItem,
                       iterations |-> groverIterations(iterations),
                       iterationsOmitted |-> (iterations = <<>>), iteration |-> 1,
                       steps |-> <<rawProbabilities(amps)>>,
                       measurementResult |-> 0 - 1, foundCorrect |-> FALSE,
                       targetProbability |-> RZero, threw |-> FALSE])

\* the loop body's first half: the oracle and its entry of steps
GroverOracle ==
    /\ pc = "groverLoop"
    /\ alg.iteration <= alg.iterations
    /\ LET amps == applyGroverOracle(amplitudes, alg.target)
       IN  AlgStep("groverLoop", "groverDiffuser", amps, scale, NoCall,
                   [alg EXCEPT !.steps = Append(@, rawProbabilities(amps))])

\* the diffuser, step 1: H on both qubits
GroverDiffuser1 ==
    AlgStep("groverDiffuser", "groverDiffuser2", groverDiffuserHadamards(amplitudes),
            scale, NoCall, alg)

\* the diffuser, step 2: phase inversion of index 0
GroverDiffuser2 ==
    AlgStep("groverDiffuser2", "groverDiffuser3", groverDiffuserPhase(amplitudes),
            scale, NoCall, alg)

\* the diffuser, step 3: H on both qubits; then the loop body's entry of
\* steps and iteration++
GroverDiffuser3 ==
    LET amps == groverDiffuserHadamards(amplitudes)
    IN  AlgStep("groverDiffuser3", "groverLoop", amps, scale, NoCall,
                [alg EXCEPT !.steps = Append(@, rawProbabilities(amps)),
                            !.iteration = @ + 1])

\* after the loop: measureAll, the last entry of steps, the result record;
\* targetProbability = steps[steps.length - 2].probabilities[targetItem]
GroverMeasure(j) ==
    /\ pc = "groverLoop"
    /\ alg.iteration > alg.iterations
    /\ LET m == measureAll(amplitudes, scale, numQubits, j)
           steps == Append(alg.steps, rawProbabilities(m.amplitudes))
       IN  AlgStep("groverLoop", "groverDone", m.amplitudes, m.scale,
                   Call("measureAll", "", 0 - 1, 0 - 1, j, m.result),
                   [alg EXCEPT !.steps = steps,
                               !.measurementResult = m.result,
                               !.foundCorrect = (m.result = alg.target),
                               !.targetProbability = steps[Len(steps) - 1][alg.target]])

\* createBellState(bellType), steps 1 and 2: new QuantumRegister(2), H on
\* qubit 0
BellStep2(bellType) ==
    AlgStart("bell2", "createBellState", 2, applySingleQubitGate(initialize(2), GateH, 0),
             [algorithm |-> "Bell", bellType |-> bellType, entanglement |-> RZero,
              probabilities |-> <<>>, isMaximallyEntangled |-> FALSE])

\* step 3: CNOT(0, 1)
BellStep3 ==
    AlgStep("bell2", "bell3", applyTwoQubitGate(amplitudes, CNOT, 0, 1), scale, NoCall, alg)

\* step 4: the switch on bellType, then the analysis and the result record
BellStep4 ==
    LET amps == bellCorrection(amplitudes, alg.bellType)
        entanglement == getEntanglementMeasure(amps, 2)
    IN  AlgStep("bell3", "bellDone", amps, scale, NoCall,
                [alg EXCEPT !.entanglement = entanglement,
                            !.probabilities = rawProbabilities(amps),
                            !.isMaximallyEntangled = isMaximallyEntangled(entanglement)])

\* quantumAddition(a, b): the guard, the 3-qubit register, the input bit a
AdditionStart(a2, b2) ==
    IF additionArgumentsInvalid(a2, b2)
    THEN AlgThrows("additionThrew",
                   [algorithm |-> "QuantumAddition", a2 |-> a2, b2 |-> b2,
                    threw |-> TRUE])
    ELSE AlgStart("additionA", "quantumAddition", 3,
                  additionSetInput(initialize(3), a2, 0),
                  [algorithm |-> "QuantumAddition", a2 |-> a2, b2 |-> b2,
                   threw |-> FALSE, measured |-> 0 - 1, sum |-> "",
                   carryQuarters |-> 0 - 1, decimal |-> ""])

\* the input bit b; this ends step 1
AdditionSetB ==
    AlgStep("additionA", "addition1", additionSetInput(amplitudes, alg.b2, 1),
            scale, NoCall, alg)

\* step 2: CNOT(0, 1)
AdditionCNOT ==
    AlgStep("addition1", "addition2", applyTwoQubitGate(amplitudes, CNOT, 0, 1),
            scale, NoCall, alg)

\* step 3: result = measureAll(); sum = result[1] is the property "1" of a
\* number, undefined; carry = a * b (in quarters: a2 * b2);
\* decimal = carry * 2 + undefined = NaN
AdditionMeasure(j) ==
    LET m == measureAll(amplitudes, scale, numQubits, j)
    IN  AlgStep("addition2", "additionDone", m.amplitudes, m.scale,
                Call("measureAll", "", 0 - 1, 0 - 1, j, m.result),
                [alg EXCEPT !.measured = m.result, !.sum = "undefined",
                            !.carryQuarters = alg.a2 * alg.b2, !.decimal = "NaN"])

\* targetItem arguments of groverAlgorithm: 0 .. 3, the one below, the one above
GroverTargetArgs == (0 - 1) .. 4

\* iterations arguments of groverAlgorithm: omitted, or a number
GroverIterationArgs == {<<>>} \cup {<<n>> : n \in 0 .. MaxIterations}

\* a and b arguments of quantumAddition, in halves: -1, 0, 0.5, 1, 2
AdditionArgs == {0 - 2, 0, 1, 2, 4}

\* new QuantumState(alpha * 2^e, beta * 2^e)
NewQuantumState(alpha, beta, e) ==
    LET state == stateNormalize(alpha, beta, ROne, e)
    IN  /\ pc = "start"
        /\ pc' = "qstate"
        /\ numQubits' = 1
        /\ amplitudes' = state.amplitudes
        /\ scale' = state.scale
        /\ pre' = (0 :> alpha @@ 1 :> beta)
        /\ preScale' = ROne
        /\ op' = Call("QuantumState", "", e, 0 - 1, 0 - 1, 0 - 1)
        /\ ctor' = "QuantumState"
        /\ UNCHANGED <<nOps, alg, tape, machine>>

\* a call on the QuantumState that leaves (or returns) state
StateCalled(call, state) ==
    /\ pc = "qstate"
    /\ nOps < MaxOps
    /\ nOps' = nOps + 1
    /\ pre' = amplitudes
    /\ preScale' = scale
    /\ amplitudes' = state.amplitudes
    /\ scale' = state.scale
    /\ op' = call
    /\ UNCHANGED <<pc, numQubits, ctor, alg, tape, machine>>

\* state.measure() with Math.random() = j / RandDen
StateMeasure(j) ==
    LET b == stateMeasureResult(amplitudes, scale, j)
    IN  StateCalled(Call("measure", "", 0 - 1, 0 - 1, j, b), stateCollapse(b))

\* state = QuantumGates.applySingleQubitGate(state, gate)
StateApplyGate(g) ==
    StateCalled(Call("QuantumGates.applySingleQubitGate", g, 0 - 1, 0 - 1, 0 - 1, 0 - 1),
                stateApplyGate(amplitudes, scale, SingleGate(g)))

\* amplitudes handed to new QuantumState, before the scaling by 2^e
StateAmplitudeArgs ==
    {ZERO, ONE, CI, invSqrt2, negInvSqrt2, Complex(RInt(3), RInt(0 - 4))}

\* the exponents e of the scaling: amplitudes near 2^-600, 1 and 2^600
StateExponentArgs == {0 - 600, 0, 600}

\* a.mul(b).div(b) for b = c * 2^e: the product is mul(a, c) * 2^e and the
\* quotient, when div does not throw, div(mul(a, c), c) * 2^0
ComplexMulDiv(a, c, e) ==
    /\ pc = "start"
    /\ pc' = "complexDone"
    /\ alg' = [algorithm |-> "Complex.mul.div", a |-> a, c |-> c, e |-> e,
               threw |-> divThrows(c, e),
               quotient |-> IF divThrows(c, e) THEN ZERO ELSE div(mul(a, c), c)]
    /\ UNCHANGED <<numQubits, amplitudes, scale, pre, preScale, op, nOps, ctor, tape, machine>>

\* the numbers a of a.mul(b).div(b)
ComplexArgs == {ZERO, ONE, MINUS_I, invSqrt2, ExpPiOver4, Complex(RInt(3), RInt(0 - 4))}

\* the divisors b = c * 2^e: c with |c|^2 a power of two, or 0
ComplexDivisorArgs == {ZERO, ONE, CI, negInvSqrt2, ExpPiOver4, Complex(ROne, ROne)}

\* the exponents e of the divisors: near 1e-18, 1e-9, 1e-6 and 1
ComplexExponentArgs == {0 - 60, 0 - 30, 0 - 20, 0}

\* QuantumGates.cnot(state1, state2) and QuantumGates.cz(state1, state2) on
\* two states made by the static constructors
TwoStateGate(name1, name2, gateName) ==
    LET newStates == gatesApplyTwoQubitGate(namedState(name1), namedState(name2),
                                            TwoGate(gateName))
    IN  /\ pc = "start"
        /\ pc' = "twoStateDone"
        /\ alg' = [algorithm |-> "QuantumGates.applyTwoQubitGate",
                   state1 |-> namedState(name1), state2 |-> namedState(name2),
                   gate |-> gateName,
                   newState1 |-> newStates[1], newState2 |-> newStates[2]]
        /\ UNCHANGED <<numQubits, amplitudes, scale, pre, preScale, op, nOps, ctor,
                       tape, machine>>

\* new QTMachine(): the 2-qubit register, the three tapes, the flags
NewMachine ==
    /\ pc = "start"
    /\ pc' = "machine"
    /\ numQubits' = 2
    /\ amplitudes' = initialize(2)
    /\ scale' = ROne
    /\ pre' = initialize(2)
    /\ preScale' = ROne
    /\ op' = NoCall
    /\ ctor' = "QTMachine"
    /\ machine' = newMachine
    /\ UNCHANGED <<nOps, alg, tape>>

\* new QuantumTape(size, type): the guard throws, or the tape is initialized
NewTape(size, type) ==
    /\ pc = "start"
    /\ ctor' = "QuantumTape"
    /\ IF tapeSizeInvalid(size)
       THEN /\ pc' = "tapeThrew"
            /\ op' = Threw(Call("QuantumTape", type, size, 0 - 1, 0 - 1, 0 - 1))
            /\ tape' = NoTape
       ELSE /\ pc' = "tape"
            /\ op' = Call("QuantumTape", type, size, 0 - 1, 0 - 1, 0 - 1)
            /\ tape' = newTape(size, type)
    /\ UNCHANGED <<numQubits, amplitudes, scale, pre, preScale, nOps, alg, machine>>

\* a call on the tape that leaves it as t; the names of the tape's calls
\* carry the prefix "tape." to tell them from the register's
TapeCalled(call, t) ==
    /\ pc = "tape"
    /\ nOps < MaxTapeOps
    /\ nOps' = nOps + 1
    /\ op' = call
    /\ tape' = t
    /\ UNCHANGED <<pc, numQubits, amplitudes, scale, pre, preScale, ctor, alg, machine>>

TapeMoveLeft ==
    LET r == tapeMoveLeft(tape)
    IN  TapeCalled(Call("tape.moveLeft", "", 0 - 1, 0 - 1, 0 - 1, BoolResult(r.result)),
                   r.tape)

TapeMoveRight ==
    LET r == tapeMoveRight(tape)
    IN  TapeCalled(Call("tape.moveRight", "", 0 - 1, 0 - 1, 0 - 1, BoolResult(r.result)),
                   r.tape)

TapeApplyGate(gateName) ==
    TapeCalled(Call("tape.applyGate", gateName, 0 - 1, 0 - 1, 0 - 1, 0 - 1),
               tapeApplyGate(tape, gateName))

TapeApplyTwoQubitGate(gateName, targetPosition) ==
    /\ pc = "tape"
    /\ targetPosition <= tape.size
    /\ LET r == tapeApplyTwoQubitGate(tape, gateName, targetPosition)
       IN  TapeCalled(Call("tape.applyTwoQubitGate", gateName, targetPosition, 0 - 1,
                           0 - 1, BoolResult(r.result)),
                      r.tape)

TapeMeasureCurrent(j) ==
    LET r == tapeMeasureCurrent(tape, j)
    IN  TapeCalled(Call("tape.measureCurrent", "", 0 - 1, 0 - 1, j, r.result), r.tape)

\* the smallest and the largest sample: a cell that holds both outcomes
\* gives 0 for the first and 1 for the second
TapeSamples == {0, RandDen - 1}

\* measureAll() where the measure() of cell i draws samples[i] / RandDen
TapeMeasureAll ==
    /\ pc = "tape"
    /\ \E samples \in [0 .. (tape.size - 1) -> TapeSamples] :
          TapeCalled(Call("tape.measureAll", "", 0 - 1, 0 - 1, 0 - 1, 0 - 1),
                     tapeMeasureAll(tape, samples).tape)

TapeReset ==
    TapeCalled(Call("tape.reset", "", 0 - 1, 0 - 1, 0 - 1, 0 - 1), tapeReset(tape))

\* size arguments of the constructor: the one below the range, small tapes,
\* the one above the range
TapeSizeArgs == {0, 1, 2, 3, MaxTapeCells + 1}

\* type arguments of the constructor: the default
TapeTypeArgs == {"work"}

\* targetPosition arguments of applyTwoQubitGate: one left of the tape up to
\* one right of it
TapeTargetArgs == (0 - 1) .. 3

\* a call on the machine that leaves it as m
MachineCalled(name, m) ==
    /\ pc = "machine"
    /\ nOps < MaxMachineCalls
    /\ nOps' = nOps + 1
    /\ op' = Call(name, "", 0 - 1, 0 - 1, 0 - 1, 0 - 1)
    /\ machine' = m
    /\ UNCHANGED <<pc, numQubits, amplitudes, scale, pre, preScale, ctor, alg, tape>>

MachineStart == MachineCalled("start", machineStart(machine))

MachineStop == MachineCalled("stop", machineStop(machine))

MachinePause == MachineCalled("pause", machinePause(machine))

\* a pending timer fires and calls runContinuous()
TimerFires ==
    /\ pc = "machine"
    /\ machine.timers > 0
    /\ machine.stepCount < MaxSteps
    /\ op' = Call("runContinuous", "", 0 - 1, 0 - 1, 0 - 1, 0 - 1)
    /\ machine' = machineRunContinuous([machine EXCEPT !.timers = @ - 1])
    /\ UNCHANGED <<pc, numQubits, amplitudes, scale, pre, preScale, nOps, ctor, alg, tape>>

\* a call on the machine that ends in a TypeError: the register has no
\* method of that name, the catch block logs and rethrows
MachineThrows(call) ==
    /\ pc = "machine"
    /\ nOps < MaxMachineCalls
    /\ pc' = "machineThrew"
    /\ nOps' = nOps + 1
    /\ pre' = amplitudes
    /\ preScale' = scale
    /\ op' = Threw(call)
    /\ UNCHANGED <<numQubits, amplitudes, scale, ctor, alg, tape, machine>>

\* machine.applyGate(gateName, ...qubits) calls
\* this.quantumRegister.applyGate(gateName, ...qubits)
MachineApplyGate(gateName, q1, q2) ==
    /\ "applyGate" \notin RegisterMethods
    /\ MachineThrows(Call("applyGate", gateName, q1, q2, 0 - 1, 0 - 1))

\* machine.deserialize(machine.serialize()): serialize() evaluates
\* this.quantumRegister.serialize() while it builds the snapshot
MachineSerialize ==
    /\ "serialize" \notin RegisterMethods
    /\ MachineThrows(Call("serialize", "", 0 - 1, 0 - 1, 0 - 1, 0 - 1))

\* gate names and qubits handed to machine.applyGate
MachineGateArgs ==
    {<<"H", 0, 0 - 1>>, <<"X", 1, 0 - 1>>, <<"CNOT", 0, 1>>, <<"CZ", 1, 0>>}

\* numQubits arguments of the constructor: the sizes up to MaxQubits, the
\* two values below the range and the two above it
QubitCountArgs == {0 - 1, 0} \cup (1 .. MaxQubits) \cup {MaxRegisterQubits + 1, MaxRegisterQubits + 2}

\* qubit arguments: every valid index, the one below and the one above
QubitArgs == (0 - 1) .. numQubits

\* basisState arguments of setAmplitude: the first and the last index, the
\* one below and the one above
BasisStateArgs == {0 - 1, 0, Dimension(numQubits) - 1, Dimension(numQubits)}

\* amplitudes handed to setAmplitude
SetAmplitudeValues == {ZERO}

Next ==
    \/ \E n \in QubitCountArgs : NewRegister(n)
    \/ CreateBellPhiPlus
    \/ CreateGHZ
    \/ \E n \in 1 .. MaxQubits : CreateUniformSuperposition(n)
    \/ \E n \in WQubitCounts : CreateWState(n)
    \/ \E s \in BasisStateArgs, a \in SetAmplitudeValues : SetAmplitude(s, a)
    \/ \E g \in SingleGateNames, q \in QubitArgs : ApplySingleQubitGate(g, q)
    \/ \E g \in TwoGateNames, c \in QubitArgs, t \in QubitArgs : ApplyTwoQubitGate(g, c, t)
    \/ \E j \in RandomSamples : MeasureAll(j)
    \/ \E q \in QubitArgs, j \in RandomSamples : MeasureQubit(q, j)
    \/ \E functionType \in DeutschFunctionTypes : ApplyDeutschOracle(functionType)
    \/ \E functionType \in DeutschFunctionTypes : DeutschStep1(functionType)
    \/ DeutschStep2
    \/ DeutschStep3
    \/ DeutschStep4
    \/ \E j \in RandomSamples : DeutschStep5(j)
    \/ \E t \in GroverTargetArgs, n \in GroverIterationArgs : GroverStart(t, n)
    \/ GroverOracle
    \/ GroverDiffuser1
    \/ GroverDiffuser2
    \/ GroverDiffuser3
    \/ \E j \in RandomSamples : GroverMeasure(j)
    \/ \E bellType \in BellTypes : BellStep2(bellType)
    \/ BellStep3
    \/ BellStep4
    \/ \E a2 \in AdditionArgs, b2 \in AdditionArgs : AdditionStart(a2, b2)
    \/ AdditionSetB
    \/ AdditionCNOT
    \/ \E j \in RandomSamples : AdditionMeasure(j)
    \/ \E alpha \in StateAmplitudeArgs, beta \in StateAmplitudeArgs,
          e \in StateExponentArgs : NewQuantumState(alpha, beta, e)
    \/ \E a \in ComplexArgs, c \in ComplexDivisorArgs, e \in ComplexExponentArgs :
          ComplexMulDiv(a, c, e)
    \/ \E j \in RandomSamples : StateMeasure(j)
    \/ \E g \in SingleGateNames : StateApplyGate(g)
    \/ \E name1 \in StateNames, name2 \in StateNames, g \in {"CNOT", "CZ"} :
          TwoStateGate(name1, name2, g)
    \/ \E size \in TapeSizeArgs, type \in TapeTypeArgs : NewTape(size, type)
    \/ TapeMoveLeft
    \/ TapeMoveRight
    \/ \E g \in TapeGateNames : TapeApplyGate(g)
    \/ \E g \in TapeTwoGateNames, t \in TapeTargetArgs : TapeApplyTwoQubitGate(g, t)
    \/ \E j \in RandomSamples : TapeMeasureCurrent(j)
    \/ TapeMeasureAll
    \/ TapeReset
    \/ NewMachine
    \/ MachineStart
    \/ MachineStop
    \/ MachinePause
    \/ TimerFires
    \/ \E a \in MachineGateArgs : MachineApplyGate(a[1], a[2], a[3])
    \/ MachineSerialize

Spec == Init /\ [][Next]_vars


(* ------------------------------ properties --------------------------- *)

Indices == DOMAIN amplitudes

\* z1 / sqrt(d1) = z2 / sqrt(d2) for reals z1, z2 and positive reals d1, d2
RScaledEq(x1, d1, x2, d2) ==
    /\ RSign(x1) = RSign(x2)
    /\ RMul(RMul(x1, x1), d2) = RMul(RMul(x2, x2), d1)

CScaledEq(z1, d1, z2, d2) ==
    /\ RScaledEq(z1.re, d1, z2.re, d2)
    /\ RScaledEq(z1.im, d1, z2.im, d2)

\* the probability of index s is num / 2^k
ProbIs(s, num, k) == RMul(AbsSq(amplitudes[s]), <<Pow2(k), 0, 0>>) = RMul(RInt(num), scale)

Normalized(amps, sc) == RawNorm(amps) = sc

Half == <<1, 0, 1>>

\* C1: every run of deutschAlgorithm classifies constant-0 and constant-1 as
\* constant, balanced-identity and balanced-not as balanced, and reports
\* isCorrect, whatever the random sample.
C1_DeutschClassifies ==
    pc = "deutschDone" =>
        /\ alg.functionType \in {"constant-0", "constant-1"}
              => alg.interpretation = "constant"
        /\ alg.functionType \in {"balanced-identity", "balanced-not"}
              => alg.interpretation = "balanced"
        /\ alg.isCorrect

\* C2: a register made by new QuantumRegister(n) has squared amplitude
\* magnitudes summing to 1 after every gate application and measurement.
C2_NormIsOne ==
    (pc = "register" /\ ctor = "new") => Normalized(amplitudes, scale)

WithSelector(x, c, t, sel) == SetBit(SetBit(x, c, sel \div 2), t, sel % 2)

\* C4: applyTwoQubitGate(G, c, t) computes new[x] = sum over in of
\* G[selector(x)][in] * a[x with selector in], selector = 2*(bit c) + (bit t);
\* only indices agreeing with x outside bits c and t contribute.
C4_TwoQubitGateKeepsOtherBits ==
    (op.name = "applyTwoQubitGate" /\ ~op.threw) =>
        LET G == TwoGate(op.gate)
            c == op.q1
            t == op.q2
        IN  /\ scale = preScale
            /\ \A x \in Indices :
                  amplitudes[x] =
                     LET out == 2 * Bit(x, c) + Bit(x, t)
                     IN  add(add(add(mul(Elem(G, out, 0), pre[WithSelector(x, c, t, 0)]),
                                     mul(Elem(G, out, 1), pre[WithSelector(x, c, t, 1)])),
                                 mul(Elem(G, out, 2), pre[WithSelector(x, c, t, 2)])),
                             mul(Elem(G, out, 3), pre[WithSelector(x, c, t, 3)]))

\* C4 witness: a 3-qubit register with amplitude on an index whose third bit
\* is set, changed by a two-qubit gate on the other two qubits.
C4_Witness ==
    /\ op.name = "applyTwoQubitGate"
    /\ ~op.threw
    /\ numQubits = 3
    /\ \E o \in 0 .. 2 :
          /\ o \notin {op.q1, op.q2}
          /\ \E s \in Indices : Bit(s, o) = 1 /\ pre[s] # ZERO /\ amplitudes[s] = ZERO
    /\ amplitudes # pre

\* C5: on a normalized register measureQubit(i) returns r in {0, 1}, zeroes
\* the amplitudes whose bit i differs from r and divides the others by the
\* square root of the prior probability of bit i = r.
C5_MeasureQubitConditions ==
    (op.name = "measureQubit" /\ ~op.threw /\ Normalized(pre, preScale)) =>
        LET i == op.q1
            r == op.result
            \* probability of bit i = r before the call, times preScale
            rawP == RawProbOfBit(pre, i, r)
        IN  /\ r \in {0, 1}
            /\ RSign(rawP) > 0
            /\ \A s \in Indices :
                  IF Bit(s, i) # r
                  THEN amplitudes[s] = ZERO
                  \* amplitudes[s]/sqrt(scale) = (pre[s]/sqrt(preScale)) / sqrt(rawP/preScale)
                  ELSE CScaledEq(amplitudes[s], scale, pre[s], rawP)

\* C5 witness: a collapse with probability below 1 that leaves two non-zero
\* amplitudes.
C5_Witness ==
    /\ op.name = "measureQubit"
    /\ ~op.threw
    /\ Normalized(pre, preScale)
    /\ RawProbOfBit(pre, op.q1, op.result) # preScale
    /\ \E s, t \in Indices : s # t /\ amplitudes[s] # ZERO /\ amplitudes[t] # ZERO

\* C6: measureAll() returns k in [0, 2^n) and leaves amplitude 1 at index k
\* and 0 at every other index.
C6_MeasureAllCollapses ==
    op.name = "measureAll" =>
        /\ op.result \in 0 .. (Dimension(numQubits) - 1)
        /\ scale = ROne
        /\ \A s \in Indices : amplitudes[s] = IF s = op.result THEN ONE ELSE ZERO

\* the fresh 2-qubit register after applySingleQubitGate(H, 0)
FreshThenH0 == applySingleQubitGate(initialize(2), GateH, 0)

AfterBellCircuit ==
    /\ pc = "register"
    /\ ctor = "new"
    /\ numQubits = 2
    /\ nOps = 2
    /\ op = Call("applyTwoQubitGate", "CNOT", 0, 1, 0 - 1, 0 - 1)
    /\ pre = FreshThenH0

\* C7: on a fresh 2-qubit register H on qubit 0 then CNOT(0, 1) gives
\* probabilities 1/2, 0, 0, 1/2 and an entanglement measure above 1/2.
C7_BellCircuit ==
    AfterBellCircuit =>
        /\ ProbIs(0, 1, 1)
        /\ ProbIs(1, 0, 0)
        /\ ProbIs(2, 0, 0)
        /\ ProbIs(3, 1, 1)
        /\ scale = ROne
        /\ EntropyDefined(amplitudes)
        /\ RLess(Half, getEntanglementMeasure(amplitudes, numQubits))

C7_Witness == AfterBellCircuit

\* C8: on a fresh 2-qubit register H on qubit 0 alone gives probability 1/2
\* at index 0 and 1/2 at index 2.
C8_HadamardOnQubit0 ==
    (/\ pc = "register"
     /\ ctor = "new"
     /\ numQubits = 2
     /\ nOps = 1
     /\ op = Call("applySingleQubitGate", "H", 0, 0 - 1, 0 - 1, 0 - 1)) =>
        /\ ProbIs(0, 1, 1)
        /\ ProbIs(2, 1, 1)
        /\ ProbIs(1, 0, 0)
        /\ ProbIs(3, 0, 0)

\* C9: after step 1 of deutschAlgorithm the register is a basis state: one
\* index has amplitude 1, the other three 0, and the register is normalized.
C9_DeutschStartsInBasisState ==
    pc = "deutsch1" =>
        /\ \E k \in Indices :
              \A s \in Indices : amplitudes[s] = IF s = k THEN ONE ELSE ZERO
        /\ Normalized(amplitudes, scale)

RECURSIVE PopCount(_)
PopCount(s) == IF s = 0 THEN 0 ELSE (s % 2) + PopCount(s \div 2)

JustConstructed(name) == pc = "register" /\ ctor = name /\ op = NoCall /\ nOps = 1

\* C10: each special-state constructor returns a normalized register with
\* its closed-form amplitudes: Bell 1/sqrt2 at 0 and 3, GHZ 1/sqrt2 at 0 and
\* 7, uniform 1/sqrt(2^n) everywhere, W 1/sqrt(n) at the one-bit indices and
\* 0 elsewhere.
C10_SpecialStatesClosedForm ==
    /\ JustConstructed("createBellPhiPlus") =>
          /\ \A s \in Indices : amplitudes[s] = IF s \in {0, 3} THEN invSqrt2 ELSE ZERO
          /\ Normalized(amplitudes, scale)
    /\ JustConstructed("createGHZ") =>
          /\ \A s \in Indices : amplitudes[s] = IF s \in {0, 7} THEN invSqrt2 ELSE ZERO
          /\ Normalized(amplitudes, scale)
    /\ JustConstructed("createUniformSuperposition") =>
          /\ \A s \in Indices : RMul(AbsSq(amplitudes[s]), RInt(Dimension(numQubits))) = ROne
          /\ \A s \in Indices : amplitudes[s].im = RZero /\ RSign(amplitudes[s].re) > 0
          /\ Normalized(amplitudes, scale)
    /\ JustConstructed("createWState") =>
          /\ \A s \in Indices :
                IF PopCount(s) = 1
                THEN /\ RMul(AbsSq(amplitudes[s]), RInt(numQubits)) = ROne
                     /\ amplitudes[s].im = RZero /\ RSign(amplitudes[s].re) > 0
                ELSE amplitudes[s] = ZERO
          /\ Normalized(amplitudes, scale)

\* the stored vector is |0...0>: amplitude 1 at index 0 and 0 elsewhere
IsZeroKet(amps, sc) ==
    /\ CScaledEq(amps[0], sc, ONE, ROne)
    /\ \A s \in DOMAIN amps : s # 0 => amps[s] = ZERO

\* the outcome returned by the last measureQubit had probability exactly 0
\* before the call: no amplitude consistent with it was non-zero
ZeroProbabilityOutcome ==
    /\ op.name = "measureQubit"
    /\ ~op.threw
    /\ \A s \in Indices : Bit(s, op.q1) = op.result => pre[s] = ZERO

\* C11: when measureQubit(i) samples an outcome of conditional probability
\* exactly zero it resets the register to |0...0>, and measureQubit never
\* leaves the all-zero vector.
C11_MeasureQubitZeroProbabilityResets ==
    /\ ZeroProbabilityOutcome => IsZeroKet(amplitudes, scale)
    /\ (op.name = "measureQubit" /\ ~op.threw) =>
          \E s \in Indices : amplitudes[s] # ZERO

\* the sample of the last measureAll was not below the cumulative
\* probability after the last basis index
MeasureAllUndershoot ==
    /\ op.name = "measureAll"
    /\ ~RandomBelow(op.random, RawNorm(pre), preScale)

\* C12: when the sample is not below the total accumulated probability,
\* measureAll() returns the last index 2^n - 1 and collapses to it.
C12_MeasureAllFallsBackToLastIndex ==
    MeasureAllUndershoot =>
        /\ op.result = Dimension(numQubits) - 1
        /\ scale = ROne
        /\ \A s \in Indices : amplitudes[s] = IF s = op.result THEN ONE ELSE ZERO

\* the last call had a qubit argument outside [0, n), or control = target
InvalidQubitArguments ==
    \/ /\ op.name \in {"applySingleQubitGate", "measureQubit"}
       /\ op.q1 \notin 0 .. (numQubits - 1)
    \/ /\ op.name = "applyTwoQubitGate"
       /\ \/ op.q1 \notin 0 .. (numQubits - 1)
          \/ op.q2 \notin 0 .. (numQubits - 1)
          \/ op.q1 = op.q2

\* C13: applySingleQubitGate or measureQubit with a qubit index outside
\* [0, n), and applyTwoQubitGate with control = target or an index outside
\* [0, n), throw and leave the amplitude vector as it was before the call.
C13_InvalidQubitThrowsUnchanged ==
    InvalidQubitArguments =>
        /\ op.threw
        /\ amplitudes = pre
        /\ scale = preScale

\* C13 witness: a call with the index one past the last qubit on a register
\* in superposition, which a gate on a valid qubit would have changed.
C13_Witness ==
    /\ InvalidQubitArguments
    /\ op.name = "applySingleQubitGate"
    /\ op.gate = "X"
    /\ op.q1 = numQubits
    /\ op.threw
    /\ \E s, t \in Indices : s # t /\ amplitudes[s] # ZERO /\ amplitudes[t] # ZERO

Quarter == <<1, 0, 2>>

\* C14: for every target t in 0..3, groverAlgorithm(t, 1) reports a
\* targetProbability above 1/4, and it is the probability of index t in the
\* register just before the final measureAll.
C14_GroverBeatsGuessing ==
    (pc = "groverDone" /\ alg.iterations = 1) =>
        /\ alg.target \in 0 .. 3
        /\ preScale = ROne
        /\ alg.targetProbability = AbsSq(pre[alg.target])
        /\ RLess(Quarter, alg.targetProbability)

\* C14 witness: the run of the repository's test, target 2 with 1
\* iteration, measured.
C14_Witness ==
    /\ pc = "groverDone"
    /\ alg.iterations = 1
    /\ alg.target = 2
    /\ Len(alg.steps) = 4
    /\ op.name = "measureAll"

\* amplitudes x and y are 1/sqrt2 and -1/sqrt2 in some order
OppositeSigns(x, y) == {x, y} = {invSqrt2, negInvSqrt2}

\* amplitudes x and y are both 1/sqrt2 or both -1/sqrt2
EqualSigns(x, y) == x = y /\ x \in {invSqrt2, negInvSqrt2}

\* C15: createBellState gives 1/sqrt2 at indices 0 and 3 for phi+, opposite
\* signs of magnitude 1/sqrt2 at 0 and 3 for phi-, equal signs at 1 and 2 for
\* psi+, opposite signs at 1 and 2 for psi-, 0 elsewhere, and
\* isMaximallyEntangled for all four.
C15_BellStates ==
    pc = "bellDone" =>
        /\ alg.isMaximallyEntangled
        /\ scale = ROne
        /\ alg.bellType = "phi+" =>
              /\ amplitudes[0] = invSqrt2 /\ amplitudes[3] = invSqrt2
              /\ amplitudes[1] = ZERO /\ amplitudes[2] = ZERO
        /\ alg.bellType = "phi-" =>
              /\ OppositeSigns(amplitudes[0], amplitudes[3])
              /\ amplitudes[1] = ZERO /\ amplitudes[2] = ZERO
        /\ alg.bellType = "psi+" =>
              /\ EqualSigns(amplitudes[1], amplitudes[2])
              /\ amplitudes[0] = ZERO /\ amplitudes[3] = ZERO
        /\ alg.bellType = "psi-" =>
              /\ OppositeSigns(amplitudes[1], amplitudes[2])
              /\ amplitudes[0] = ZERO /\ amplitudes[3] = ZERO

\* C15 witness: psi-, the type that takes both the Z and the X gate.
C15_Witness ==
    /\ pc = "bellDone"
    /\ alg.bellType = "psi-"
    /\ amplitudes[1] # amplitudes[2]
    /\ alg.entanglement = ROne

GroverSession ==
    pc \in {"groverThrew", "groverLoop", "groverDiffuser", "groverDiffuser2",
            "groverDiffuser3", "groverDone"}

AdditionSession ==
    pc \in {"additionThrew", "additionA", "addition1", "addition2", "additionDone"}

\* C16: groverAlgorithm throws for every target outside [0, 3] and
\* quantumAddition for every bit argument that is not 0 or 1 (in halves:
\* not 0 or 2), before any register is created.
C16_InvalidParametersThrow ==
    /\ (GroverSession /\ alg.target \notin 0 .. 3) =>
          alg.threw /\ numQubits = 0
    /\ (AdditionSession /\ (alg.a2 \notin {0, 2} \/ alg.b2 \notin {0, 2})) =>
          alg.threw /\ numQubits = 0

\* C19: new QuantumRegister(n) throws for n < 1 and for n > 20, and for n in
\* [1, 20] creates a register of dimension 2^n with amplitude 1 at index 0
\* and 0 at every other index.
C19_ConstructorRange ==
    /\ \A n \in 1 .. 20 : ~qubitCountInvalid(n)
    /\ pc = "constructorThrew" =>
          /\ op.threw
          /\ op.q1 \notin 1 .. 20
          /\ numQubits = 0
    /\ (pc = "register" /\ ctor = "new" /\ nOps = 0) =>
          /\ numQubits \in 1 .. 20
          /\ DOMAIN amplitudes = 0 .. (Pow2(numQubits) - 1)
          /\ \A s \in Indices : amplitudes[s] = IF s = 0 THEN ONE ELSE ZERO
          /\ scale = ROne

\* C19 witness: the largest register within the bound, just constructed.
C19_Witness ==
    /\ pc = "register"
    /\ ctor = "new"
    /\ nOps = 0
    /\ numQubits = MaxQubits
    /\ Cardinality(Indices) = Pow2(MaxQubits)

\* C17: every QuantumState has |alpha|^2 + |beta|^2 = 1: after construction
\* from any amplitude pair (a pair of norm below 1e-15 gives exactly |0>),
\* after measure(), and for the state returned by applying any of the gates
\* I, X, Y, Z, H, S, T.
C17_QuantumStateNormalized ==
    pc = "qstate" =>
        /\ Normalized(amplitudes, scale)
        /\ (/\ op.name = "QuantumState"
            /\ RatioBelow(RAdd(AbsSq(pre[0]), AbsSq(pre[1])), ROne, 2 * op.q1, Eps30Bits)) =>
              IsZeroKet(amplitudes, scale)

\* the stored vector is the basis state |b>
IsBasisState(amps, sc, b) ==
    /\ sc = ROne
    /\ amps[b] = ONE
    /\ amps[1 - b] = ZERO

\* C18: measure() returns b in {0, 1} and leaves exactly |b>, so a repeated
\* measure() returns the same b; a state with |alpha|^2 = 1 always yields 0
\* and a state with |alpha|^2 = 0 always yields 1.
C18_StateMeasureCollapses ==
    (pc = "qstate" /\ op.name = "measure") =>
        /\ op.result \in {0, 1}
        /\ IsBasisState(amplitudes, scale, op.result)
        /\ AbsSq(pre[0]) = preScale => op.result = 0
        /\ AbsSq(pre[0]) = RZero => op.result = 1
        /\ \A b \in {0, 1} : IsBasisState(pre, preScale, b) => op.result = b

\* C18 witness: a measure() of a superposition that returned 1 with the
\* sample 0.5 or above.
C18_Witness ==
    /\ pc = "qstate"
    /\ op.name = "measure"
    /\ op.result = 1
    /\ pre[0] # ZERO
    /\ pre[1] # ZERO
    /\ amplitudes[1] = ONE

\* C18, second witness of the same run: a repeated measure() of |1>.
C18_RepeatedMeasure ==
    /\ pc = "qstate"
    /\ op.name = "measure"
    /\ nOps = 2
    /\ IsBasisState(pre, preScale, 1)
    /\ op.random = 0

\* |c * 2^e| > 1e-10, i.e. |c|^2 * 2^(2e) is not below 1e-20, where
\* 2^-67 < 1e-20 < 2^-66
MagnitudeAbove1e10(c, e) == ~RatioBelow(AbsSq(c), ROne, 2 * e, 67)

\* |c * 2^e| < 1e-15, i.e. |c|^2 * 2^(2e) < 1e-30
MagnitudeBelow1e15(c, e) == RatioBelow(AbsSq(c), ROne, 2 * e, Eps30Bits)

\* C20: for every a and every b with |b| > 1e-10, a.mul(b).div(b) does not
\* throw and returns a; div throws only for divisors of magnitude below
\* 1e-15.
C20_MulDivRoundTrip ==
    pc = "complexDone" =>
        /\ MagnitudeAbove1e10(alg.c, alg.e) => (~alg.threw /\ alg.quotient = alg.a)
        /\ alg.threw => MagnitudeBelow1e15(alg.c, alg.e)

\* |z1 / sqrt(d1) - z2 / sqrt(d2)| = 0: the two stored amplitudes agree, and
\* so are within 1e-10 of each other
SameAmplitude(z1, d1, z2, d2) == CScaledEq(z1, d1, z2, d2)

\* C21: machine.deserialize(machine.serialize()) completes and leaves a
\* register whose every amplitude is within 1e-10 of the amplitude it had
\* before.
C21_SerializeRoundTrip ==
    (ctor = "QTMachine" /\ op.name = "serialize") =>
        /\ ~op.threw
        /\ \A s \in Indices : SameAmplitude(amplitudes[s], scale, pre[s], preScale)

\* the register after H on qubit 0 of |00>
AfterHadamard0 == applySingleQubitGate(initialize(2), GateH, 0)

\* C22: machine.applyGate(name, ...qubits) applies the catalog gate of that
\* name to the machine's register: from |00>, applyGate('H', 0) and then
\* applyGate('CNOT', 0, 1) complete without error and leave probability 0.5
\* at indices 0 and 3.
C22_MachineApplyGateByName ==
    (ctor = "QTMachine" /\ op.name = "applyGate") =>
        /\ ~op.threw
        /\ (op.gate = "H" /\ op.q1 = 0 /\ pre = initialize(2))
              => amplitudes = AfterHadamard0
        /\ (op.gate = "CNOT" /\ op.q1 = 0 /\ op.q2 = 1 /\ pre = AfterHadamard0)
              => (ProbIs(0, 1, 1) /\ ProbIs(3, 1, 1))

\* the vector gate . (state1 (x) state2), without the two scales
TwoStateResult(state1, state2, gateName) ==
    apply(TwoGate(gateName),
          [k \in 0 .. 3 |-> mul(state1.amplitudes[k \div 2], state2.amplitudes[k % 2])])

\* (r0, r1, r2, r3) = (a c, a d, b c, b d) for some (a, b) and (c, d)
IsProductVector(r) == mul(r[0], r[3]) = mul(r[1], r[2])

\* the 2-vectors (u0, u1) and (v0, v1) are multiples of each other; for
\* normalized states this is equality up to a global phase, the relative
\* phase of the two amplitudes included
SameRay(u0, u1, v0, v1) == mul(u0, v1) = mul(u1, v0)

\* C23: when gate . (state1 (x) state2) is a product state (a, b) (x) (c, d),
\* applyTwoQubitGate returns (a, b) and (c, d), relative phases included;
\* so cz(|0>, s) returns s.
C23_TwoQubitGateReturnsFactors ==
    pc = "twoStateDone" =>
        LET r == TwoStateResult(alg.state1, alg.state2, alg.gate)
            n1 == alg.newState1.amplitudes
            n2 == alg.newState2.amplitudes
        IN  IsProductVector(r) =>
               /\ SameRay(n1[0], n1[1], r[0], r[2])
               /\ SameRay(n1[0], n1[1], r[1], r[3])
               /\ SameRay(n2[0], n2[1], r[0], r[1])
               /\ SameRay(n2[0], n2[1], r[2], r[3])

\* the oracle of f(x) = NOT x as the code's comment builds it: cnotGate, then
\* xGate = I (x) X, on the amplitude vector
NotOracle(amps) == apply(tensorProduct(GateI, GateX), apply(CNOT, amps))

\* C24: applyDeutschOracle(register, 'balanced-not') applies the oracle of
\* f(x) = NOT x, CNOT composed with X on the second qubit, which is not X on
\* qubit 1 alone.
C24_BalancedNotOracle ==
    (op.name = "applyDeutschOracle" /\ op.gate = "balanced-not") =>
        amplitudes = NotOracle(pre)

NumberText(n) == CASE n = 0 -> "0" [] n = 1 -> "1" [] n = 2 -> "2"

\* C26: for a, b in {0, 1} quantumAddition(a, b) returns result.sum = a XOR b,
\* result.carry = a AND b and decimal = a + b (a2, b2 are the arguments in
\* halves, carryQuarters the carry in quarters).
C26_AdditionResult ==
    (pc = "additionDone" /\ alg.a2 \in {0, 2} /\ alg.b2 \in {0, 2}) =>
        LET a == alg.a2 \div 2
            b == alg.b2 \div 2
        IN  /\ alg.sum = NumberText((a + b) % 2)
            /\ alg.carryQuarters = 4 * (a * b)
            /\ alg.decimal = NumberText(a + b)

\* C27: on a tape constructed with an integer size in [1, 100] the head stays
\* in 0 .. size - 1 after construction and after every moveLeft, moveRight,
\* applyGate, applyTwoQubitGate, measureCurrent, measureAll and reset; a
\* moveLeft at 0 and a moveRight at size - 1 return false and change neither
\* headPosition nor the operation history.
C27_HeadStaysOnTape ==
    [][pc' = "tape" =>
          /\ tape'.headPosition \in 0 .. (tape'.size - 1)
          /\ (pc = "tape" /\ op'.name = "tape.moveLeft" /\ tape.headPosition = 0) =>
                 /\ op'.result = BoolResult(FALSE)
                 /\ tape'.headPosition = tape.headPosition
                 /\ tape'.operationHistory = tape.operationHistory
          /\ (pc = "tape" /\ op'.name = "tape.moveRight"
                 /\ tape.headPosition = tape.size - 1) =>
                 /\ op'.result = BoolResult(FALSE)
                 /\ tape'.headPosition = tape.headPosition
                 /\ tape'.operationHistory = tape.operationHistory]_vars

\* C27 witness: a moveLeft that returned false at cell 0 of a tape of more
\* than one cell, after a call that was recorded in the history.
C27_Witness ==
    /\ pc = "tape"
    /\ op.name = "tape.moveLeft"
    /\ op.result = BoolResult(FALSE)
    /\ tape.size > 1
    /\ tape.headPosition = 0
    /\ Len(tape.operationHistory) > 0

\* C28: in manual mode, for every interleaving of start(), stop(), pause()
\* and timer firings, there are never two pending runContinuous timers that
\* will both execute step() and reschedule themselves: while the machine is
\* running and not paused at most one callback is pending.
C28_OneTimerChain ==
    (pc = "machine" /\ machine.isRunning /\ ~machine.isPaused) =>
        machine.timers <= 1

\* C29: after pause() is called twice on a running machine with no stop() in
\* between, step() is executed again by the continuous loop without a new
\* start(): when the second pause() returns, a runContinuous callback is
\* pending (only a pending callback calls step(), and start() returns at
\* once while isRunning is true).
C29_ResumeKeepsStepping ==
    (pc = "machine" /\ op.name = "pause" /\ machine.isRunning /\ ~machine.isPaused) =>
        machine.timers >= 1

\* the tape types the constructor names, in order
MachineTapeTypes == <<"input", "work", "output">>

\* C30: a newly constructed QTMachine holds three tapes of types 'input',
\* 'work' and 'output' in that order, each with a positive number of cells,
\* all |0>, and a headPosition that is a cell index of that tape.
C30_MachineTapes ==
    (pc = "machine" /\ op = NoCall) =>
        /\ Len(machine.tapes) = 3
        /\ \A i \in 1 .. 3 :
              LET t == machine.tapes[i]
              IN  /\ t.type = MachineTapeTypes[i]
                  /\ Cardinality(DOMAIN t.cells) > 0
                  /\ \A c \in DOMAIN t.cells : t.cells[c] = stateZero
                  /\ t.headPosition \in DOMAIN t.cells

====
